---- MODULE Spec2Model ----
\* A model of git-meta: GitRepo::open and its branch/commit resolver (repo.rs)
\* and the change detector of GitRepoInfo (info.rs), over a small git2 backend:
\* an object store of commits with parents and trees, local branches, their
\* upstream configuration, remote-tracking references, HEAD and the shallow flag.
EXTENDS Integers, Sequences, FiniteSets, TLC

VARIABLES
    repo,   \* the repository on disk, as the git2 backend sees it
    self,   \* the identity (GitRepo / GitRepoInfo) the operation is called on
    op,     \* the operation that ran last
    args,   \* its arguments
    ret,    \* what it returned
    calls,  \* the backend calls it made, in order
    remote, \* the repository the remote serves: what a clone or a listing sees
    logs,   \* the records it wrote to the log, in order
    spawned \* the command lines of the subprocesses it started, in order

vars == <<repo, self, op, args, ret, calls, remote, logs, spawned>>

----------------------------------------------------------------------------
\* Bounds of the model

\* commits in the object store are 1..NumCommits
NumCommits == 3

\* length of the abbreviated commit ids offered to the operations
AbbrevLen == 5

----------------------------------------------------------------------------
\* Option and Result values

None == [some |-> FALSE]

Some(x) == [some |-> TRUE, v |-> x]

Ok(x) == [ok |-> TRUE, v |-> x]

Err(e) == [ok |-> FALSE, panic |-> FALSE, e |-> e]

\* the call does not return: panic!, expect, unreachable!
Panic(e) == [ok |-> FALSE, panic |-> TRUE, e |-> e]

----------------------------------------------------------------------------
\* Object ids and their hexadecimal form. Strings that the code inspects by
\* character (commit ids, paths) are sequences of one-character strings.

\* info.rs: `partial_commit_id.as_ref().len() == 40`
FullIdLen == 40

OidRawLen == FullIdLen \div 2

HexChars == <<"0", "1", "2", "3", "4", "5", "6", "7",
              "8", "9", "a", "b", "c", "d", "e", "f">>

UpperHexChars == <<"0", "1", "2", "3", "4", "5", "6", "7",
                   "8", "9", "A", "B", "C", "D", "E", "F">>

\* the value of a hexadecimal digit of either case, -1 for any other character
HexValue(ch) ==
    IF \E i \in 1..16 : HexChars[i] = ch
    THEN (CHOOSE i \in 1..16 : HexChars[i] = ch) - 1
    ELSE IF \E i \in 1..16 : UpperHexChars[i] = ch
    THEN (CHOOSE i \in 1..16 : UpperHexChars[i] = ch) - 1
    ELSE -1

\* an encoding that writes the low nibble first
HexEncodeLowFirst(bytes) ==
    [i \in 1..(2 * Len(bytes)) |->
        IF i % 2 = 1
        THEN HexChars[(bytes[(i + 1) \div 2] % 16) + 1]
        ELSE HexChars[(bytes[i \div 2] \div 16) + 1]]

\* hex::encode: two lower-case digits per byte, high nibble first
HexEncode(bytes) ==
    [i \in 1..(2 * Len(bytes)) |->
        IF i % 2 = 1
        THEN HexChars[(bytes[(i + 1) \div 2] \div 16) + 1]
        ELSE HexChars[(bytes[i \div 2] % 16) + 1]]

\* git2::Oid::from_str: fails on an empty string, on more than 40 characters
\* and on a character that is no hex digit; a shorter string is padded with
\* zero nibbles
OidFromStr(s) ==
    IF Len(s) = 0 \/ Len(s) > FullIdLen \/ \E i \in 1..Len(s) : HexValue(s[i]) < 0
    THEN Err("git2: unable to parse OID")
    ELSE LET nib(i) == IF i <= Len(s) THEN HexValue(s[i]) ELSE 0
         IN Ok([i \in 1..OidRawLen |-> 16 * nib(2 * i - 1) + nib(2 * i)])

----------------------------------------------------------------------------
\* The object store

Commits == 1..NumCommits

\* an object of the store that is no commit (a tree); branches and
\* remote-tracking references may be pointed at it, and it cannot be peeled
TreeObject == 0

Objects == Commits \cup {TreeObject}

\* The raw id of an object. Commits 1 and 2 share their first four hex digits
\* ("ab01"), so that an abbreviation of four digits is ambiguous.
OidOf(o) ==
    [i \in 1..OidRawLen |->
        IF o = TreeObject THEN 238
        ELSE IF o <= 2 /\ i = 1 THEN 171
        ELSE IF o <= 2 /\ i = 2 THEN 1
        ELSE 17 * o]

\* The same id as git prints it: forty lower-case hex digits
IdOf(o) ==
    [i \in 1..FullIdLen |->
        IF o = TreeObject THEN "e"
        ELSE IF o <= 2 /\ i <= 4 THEN <<"a", "b", "0", "1">>[i]
        ELSE HexChars[o + 1]]

Abbrev(o, n) == SubSeq(IdOf(o), 1, n)

\* commit.message() and commit.time().seconds()
MessageOf(c) == <<"message", c>>

TimeOf(c) == 1000 + c

----------------------------------------------------------------------------
\* The git2 backend: what the code asks of a repository `r`. A repository is
\*   parents        commit -> the sequence of its parents
\*   tree           commit -> its tree
\*   branches       local branch name -> the object it points at
\*   upstreamRemote local branch name -> Some(branch.<name>.remote) or None
\*   tracking       local branch name -> Some(target of the remote-tracking
\*                  reference of the branch) or None
\*   merge          local branch name -> the name of its upstream branch on the
\*                  remote (branch.<name>.merge)
\*   remotes        the names of the remotes that are defined (with a url)
\*   objects        the commits the object store holds
\*   head           HEAD: on a branch, detached at a commit, or unborn
\*   shallow        whether the repository is a shallow clone

\* where the repository is: two spellings of one directory
RepoPaths == {"/repo", "./repo"}

NoRepoPath == "/nowhere"

\* fs::canonicalize: the absolute form of a path that exists
Canonicalize(path) ==
    IF path \in RepoPaths THEN Ok("/repo") ELSE Err("No such file or directory")

RemoteUrl(name) == "https://example.com/" \o name \o ".git"

\* git2::Repository::open
RepositoryOpen(path) ==
    IF path \in RepoPaths THEN Ok(path) ELSE Err("git2: could not find repository")

\* a git2::Reference: a local branch, a remote-tracking branch, or a detached HEAD
LocalRef(r, b) == [kind |-> "local", short |-> b, target |-> r.branches[b]]

\* r.head(): the reference HEAD resolves to; an error on an unborn branch
RepoHead(r) ==
    CASE r.head.kind = "branch" /\ r.head.name \in DOMAIN r.branches ->
            Ok(LocalRef(r, r.head.name))
      [] r.head.kind = "detached" ->
            Ok([kind |-> "head", short |-> "HEAD", target |-> r.head.commit])
      [] OTHER -> Err("git2: reference 'refs/heads/main' not found")

\* reference.peel_to_commit()
PeelToCommit(ref) ==
    IF ref.target \in Commits THEN Ok(ref.target)
    ELSE Err("git2: the reference cannot be peeled to a commit")

\* Branch::name(): the shorthand of a branch; an error for a reference that is
\* neither a local nor a remote branch (HEAD itself)
BranchName(ref) ==
    IF ref.kind \in {"local", "remote"} THEN Ok(Some(ref.short))
    ELSE Err("git2: reference is neither a local nor a remote branch")

\* r.find_branch(name, BranchType::Local)
FindBranch(r, name) ==
    IF name \in DOMAIN r.branches THEN Ok(LocalRef(r, name))
    ELSE Err("git2: cannot locate local branch")

\* r.branch_upstream_remote(refname): the configured remote of a local branch
BranchUpstreamRemote(r, ref) ==
    IF ref.kind = "local" /\ r.upstreamRemote[ref.short].some
    THEN Ok(r.upstreamRemote[ref.short].v)
    ELSE Err("git2: branch has no upstream remote")

\* r.find_remote(name), then remote.url()
FindRemoteUrl(r, name) ==
    IF name \in r.remotes THEN Ok(Some(RemoteUrl(name)))
    ELSE Err("git2: remote does not exist")

\* branch.upstream(): the remote-tracking reference of a local branch; it
\* needs the configured remote to be defined and the reference to exist
BranchUpstream(r, ref) ==
    IF /\ ref.kind = "local"
       /\ r.upstreamRemote[ref.short].some
       /\ r.upstreamRemote[ref.short].v \in r.remotes
       /\ r.tracking[ref.short].some
    THEN Ok([kind |-> "remote",
             short |-> r.upstreamRemote[ref.short].v \o "/" \o r.merge[ref.short],
             target |-> r.tracking[ref.short].v])
    ELSE Err("git2: upstream not found")

\* a backend that reports no repository as shallow
never_shallow(r) == FALSE

\* r.is_shallow()
IsShallow(r) == r.shallow

\* r.find_commit(oid)
FindCommit(r, oid) ==
    IF \E c \in r.objects : OidOf(c) = oid
    THEN Ok(CHOOSE c \in r.objects : OidOf(c) = oid)
    ELSE Err("git2: object not found")

\* Is `a` a proper ancestor of `d`? (r.graph_descendant_of(d, a))
RECURSIVE Ancestors(_, _)
Ancestors(r, c) ==
    LET ps == {r.parents[c][i] : i \in 1..Len(r.parents[c])}
    IN ps \cup UNION {Ancestors(r, p) : p \in ps}

\* the walk reads `d`, `a` and the ancestors of `d`: it fails on a commit the
\* object store has lost
GraphDescendantOf(r, d, a) ==
    IF ({d, a} \cup Ancestors(r, d)) \subseteq r.objects
    THEN Ok(a \in Ancestors(r, d))
    ELSE Err("git2: object not found")

----------------------------------------------------------------------------
\* repo.rs and info.rs: GitRepo::open and what it calls

\* GitCommitMeta::new(c.id()).with_message(..).with_timestamp(..)
CommitMeta(c) ==
    [id |-> HexEncode(OidOf(c)),
     message |-> Some(MessageOf(c)),
     timestamp |-> Some(TimeOf(c))]

\* a resolver that looks at the branch HEAD is on whatever branch is named
get_git2_branch_of_head(r, local_branch) ==
    LET head == RepoHead(r)
    IN IF ~head.ok THEN head
       ELSE IF head.v.kind = "local" THEN Ok(Some(head.v)) ELSE Ok(None)

\* GitRepo::get_git2_branch: the local branch named, or the branch HEAD is on;
\* None when there is no such branch or HEAD is detached
get_git2_branch(r, local_branch) ==
    IF local_branch.some
    THEN LET b == FindBranch(r, local_branch.v)
         IN IF b.ok THEN Ok(Some(b.v)) ELSE Ok(None)
    ELSE LET head == RepoHead(r)
         IN IF ~head.ok THEN head
            ELSE LET name == BranchName(head.v)
                 IN IF name.ok /\ name.v.some
                    THEN LET b == FindBranch(r, name.v.v)
                         IN IF b.ok THEN Ok(Some(b.v)) ELSE Ok(None)
                    ELSE Ok(None)

\* a check that hands the failures of the backend on to its caller
is_commit_in_branch_or_error(r, commit, branch) ==
    LET branch_head == PeelToCommit(branch)
    IN IF ~branch_head.ok THEN Err("Unable to extract branch HEAD commit")
       ELSE IF branch_head.v = commit THEN Ok(TRUE)
       ELSE LET check_commit_in_branch == GraphDescendantOf(r, branch_head.v, commit)
            IN IF ~check_commit_in_branch.ok
               THEN Err("Unable to determine if commit exists within branch")
               ELSE check_commit_in_branch

\* GitRepoInfo::is_commit_in_branch
is_commit_in_branch(r, commit, branch) ==
    LET branch_head == PeelToCommit(branch)
    IN IF ~branch_head.ok THEN Ok(FALSE)
       ELSE IF branch_head.v = commit THEN Ok(TRUE)
       ELSE LET check_commit_in_branch == GraphDescendantOf(r, branch_head.v, commit)
            IN IF ~check_commit_in_branch.ok THEN Ok(FALSE)
               ELSE check_commit_in_branch

\* a lookup by id that keeps the commit only if the branch given contains it
commit_by_id_in_branch(r, branch, id) ==
    LET oid == OidFromStr(id)
    IN IF ~oid.ok THEN oid
       ELSE LET commit == FindCommit(r, oid.v)
                working_branch == get_git2_branch(r, branch)
            IN IF ~commit.ok THEN commit
               ELSE IF /\ branch.some
                       /\ working_branch.ok
                       /\ working_branch.v.some
                       /\ ~is_commit_in_branch(r, commit.v, working_branch.v.v).v
               THEN Ok(None)
               ELSE Ok(Some(commit.v))

\* get_git2_commit, a commit id given: the commit object of that id; the
\* branch is not consulted
commit_by_id(r, branch, id) ==
    LET oid == OidFromStr(id)
    IN IF ~oid.ok THEN oid
       ELSE LET commit == FindCommit(r, oid.v)
            IN IF ~commit.ok THEN commit ELSE Ok(Some(commit.v))

\* a choice that never looks for the upstream
local_only(r, git2_branch) == git2_branch

\* get_git2_commit, no commit id given: the reference to peel is the upstream
\* of the branch, or the branch itself when it has no upstream
upstream_or_local(r, git2_branch) ==
    LET upstream == BranchUpstream(r, git2_branch)
    IN IF upstream.ok THEN upstream.v ELSE git2_branch

\* `let _ = GitRepoInfo::is_commit_in_branch(..); Ok(Some(commit))`: the
\* outcome of the check is dropped
discard_check(check, commit) == Ok(Some(commit))

\* a test that never takes the early return
never_neither(branch, commit_id) == FALSE

\* `if let (None, None) = (branch, commit_id)`
neither_given(branch, commit_id) == ~branch.some /\ ~commit_id.some

\* GitRepo::get_git2_commit, the branch/commit resolver
get_git2_commit(r, branch, commit_id) ==
    IF neither_given(branch, commit_id)
    THEN LET head == RepoHead(r)
         IN IF ~head.ok THEN head
            ELSE LET commit == PeelToCommit(head.v)
                 IN IF commit.ok THEN Ok(Some(commit.v))
                    ELSE Err("Unable to retrieve HEAD commit object from remote branch")
    ELSE IF commit_id.some
    THEN commit_by_id(r, branch, commit_id.v)
    ELSE IF branch.some
    THEN LET git2_branch == get_git2_branch(r, branch)
         IN IF git2_branch.ok /\ git2_branch.v.some
            THEN LET working_ref == upstream_or_local(r, git2_branch.v.v)
                     commit == PeelToCommit(working_ref)
                 IN IF ~commit.ok
                    THEN Err("Unable to retrieve HEAD commit object from remote branch")
                    ELSE discard_check(
                             is_commit_in_branch(r, commit.v, working_ref),
                             commit.v)
            ELSE Ok(None)
    ELSE Panic("unreachable: We should have returned Err() early")

\* a lookup that fails for a branch without upstream remote ("Could not
\* retrieve remote name from local branch")
remote_name_or_error(r) ==
    LET local_branch == RepoHead(r)
    IN IF ~local_branch.ok THEN local_branch
       ELSE LET upstream_remote == BranchUpstreamRemote(r, local_branch.v)
            IN IF upstream_remote.ok THEN Ok(Some(upstream_remote.v))
               ELSE Err("Could not retrieve remote name from local branch")

\* GitRepoInfo::remote_name_from_repository
remote_name_from_repository(r) ==
    LET local_branch == RepoHead(r)
    IN IF ~local_branch.ok THEN local_branch
       ELSE LET upstream_remote == BranchUpstreamRemote(r, local_branch.v)
            IN IF upstream_remote.ok THEN Ok(Some(upstream_remote.v)) ELSE Ok(None)

\* GitRepoInfo::remote_url_from_repository (git_remote_from_repo)
remote_url_from_repository(r) ==
    LET remote_name == remote_name_from_repository(r)
    IN IF ~remote_name.ok THEN remote_name
       ELSE IF ~remote_name.v.some THEN Ok(None)
       ELSE LET url == FindRemoteUrl(r, remote_name.v.v)
            IN IF ~url.ok THEN url
               ELSE IF url.v.some THEN Ok(Some(url.v.v))
               ELSE Err("Unable to extract repo url from remote")

\* GitRepo::new: the url parsed as a GitUrl, every other field unset
GitRepo_new(url) ==
    Ok([url |-> [parsed |-> url],
        credentials |-> None,
        head |-> None,
        branch |-> None,
        path |-> None])

\* GitRepo::with_path
with_path(g, path) ==
    LET p == Canonicalize(path)
    IN IF p.ok THEN Ok([g EXCEPT !.path = Some(p.v)])
       ELSE Err("Directory was not found")

\* GitRepo::with_branch
with_branch(g, branch) ==
    IF branch.some THEN [g EXCEPT !.branch = Some(branch.v)] ELSE g

\* GitRepo::with_git2_commit
with_git2_commit(g, commit) ==
    IF commit.some THEN [g EXCEPT !.head = Some(CommitMeta(commit.v))]
    ELSE [g EXCEPT !.head = None]

\* a check that lets through the commits the shallow clone does hold
refuses_commit_it_lacks(r, commit_id) ==
    /\ commit_id.some
    /\ IsShallow(r)
    /\ ~(OidFromStr(commit_id.v).ok /\ FindCommit(r, OidFromStr(commit_id.v).v).ok)

\* open: "We don't support digging around in past commits if the repo is
\* shallow"
refuses_commit_on_shallow(r, commit_id) == commit_id.some /\ IsShallow(r)

\* GitRepo::open
GitRepo_open(r, path, branch, commit_id) ==
    LET local_repo == RepositoryOpen(path)
    IN IF ~local_repo.ok THEN Err("Failed to open repo")
    ELSE LET remote_url == remote_url_from_repository(r)
    IN IF ~remote_url.ok THEN remote_url
    ELSE LET found == get_git2_branch(r, branch)
             working_branch_name ==
                 IF found.ok /\ found.v.some THEN BranchName(found.v.v).v ELSE None
    IN IF refuses_commit_on_shallow(r, commit_id)
       THEN Err("Can't open by commit on shallow clones")
    ELSE LET commit == get_git2_commit(r, working_branch_name, commit_id)
    IN IF ~commit.ok THEN commit
    ELSE LET new == GitRepo_new(IF remote_url.v.some THEN remote_url.v.v ELSE path)
    IN IF ~new.ok THEN new
    ELSE LET located == with_path(new.v, path)
    IN IF ~located.ok THEN located
    ELSE Ok(with_git2_commit(with_branch(located.v, working_branch_name), commit.v))

\* a re-opening that carries the credentials of the identity over
reopened_with_credentials(g, opened) ==
    [opened EXCEPT !.credentials = g.credentials]

\* `self = .. repo ..`: the identity is replaced by the one open returned
reopened(g, opened) == opened

\* GitRepo::with_commit
with_commit(g, r, commit_id) ==
    IF g.path.some
    THEN LET opened == GitRepo_open(r, g.path.v, g.branch, commit_id)
         IN IF opened.ok THEN Ok(reopened(g, opened.v))
            ELSE Err("Unable to open GitRepo with commit id")
    ELSE Err("No path to GitRepo set")

----------------------------------------------------------------------------
\* info.rs: the change detector. Each operation yields what it returns (ret)
\* and the backend calls it made (calls).

Did(result, made) == [ret |-> result, calls |-> made]

\* the same with the log records the operation wrote and the command lines of
\* the subprocesses it started
Effects(did, records, commands) ==
    [ret |-> did.ret, calls |-> did.calls, logs |-> records,
     spawned |-> commands]

\* the element of a one-element set: `TheOnly({e(x) : x \in {v}})` is e with x
\* bound to the value of v, computed once, as a Rust `let` binds it
TheOnly(S) == CHOOSE x \in S : TRUE

StartsWith(s, prefix) ==
    Len(prefix) <= Len(s) /\ SubSeq(s, 1, Len(prefix)) = prefix

LowerHex(s) == [i \in 1..Len(s) |-> HexChars[HexValue(s[i]) + 1]]

IsHex(s) == \A i \in 1..Len(s) : HexValue(s[i]) >= 0

HeadSpec == <<"H", "E", "A", "D">>

\* r.revparse_single(spec): the object a revision names. The model knows the
\* revision "HEAD" and abbreviated object ids: at least four hex digits that
\* are the prefix of exactly one object id.
RevparseSingle(r, spec) ==
    IF spec = HeadSpec
    THEN LET head == RepoHead(r)
         IN IF head.ok THEN Ok(head.v.target) ELSE head
    ELSE IF Len(spec) >= 4 /\ Len(spec) <= FullIdLen /\ IsHex(spec)
    THEN LET found == {o \in Objects : StartsWith(IdOf(o), LowerHex(spec))}
         IN IF found = {} THEN Err("git2: revspec not found")
            ELSE IF Cardinality(found) > 1 THEN Err("git2: ambiguous object id prefix")
            ELSE Ok(CHOOSE o \in found : TRUE)
    ELSE Err("git2: revspec not found")

\* object.peel_to_commit()
ObjectPeelToCommit(o) ==
    IF o \in Commits THEN Ok(o) ELSE Err("git2: the object cannot be peeled to a commit")

\* GitRepo::to_repository_from_path
to_repository_from_path(path) ==
    IF RepositoryOpen(path).ok THEN Ok(path) ELSE Err("Failed to open repo")

\* GitRepo::to_repository
to_repository(g) ==
    IF g.path.some THEN to_repository_from_path(g.path.v)
    ELSE Err("No path set to open")

\* a test against the length of the raw id
raw_length(partial_commit_id) == Len(partial_commit_id) = OidRawLen

\* expand_partial_commit_id: "Don't need to do anything if the commit is
\* already complete"
already_complete(partial_commit_id) == Len(partial_commit_id) = FullIdLen

\* GitRepoInfo::expand_partial_commit_id
expand_partial_commit_id(g, r, partial_commit_id) ==
    IF already_complete(partial_commit_id)
    THEN Did(Ok(partial_commit_id), <<>>)
    ELSE LET first == to_repository(g)
    IN IF ~first.ok
       THEN Did(first, IF g.path.some THEN <<"Repository::open">> ELSE <<>>)
    ELSE IF IsShallow(r)
    THEN Did(Err("No support for partial commit id expand on shallow clones"),
             <<"Repository::open", "is_shallow">>)
    ELSE LET made == <<"Repository::open", "is_shallow", "Repository::open",
                       "revparse_single">>
             object == RevparseSingle(r, partial_commit_id)
    IN IF ~object.ok THEN Did(object, made)
    ELSE LET commit == ObjectPeelToCommit(object.v)
    IN IF ~commit.ok THEN Did(commit, made)
    ELSE Did(Ok(HexEncode(OidOf(commit.v))), made)


\* The paths a tree may hold, in the order a diff lists them. A tree maps each
\* to the version of its blob, 0 when the path is absent.
Paths ==
    << <<"R", "E", "A", "D", "M", "E">>,
       <<"s", "r", "c", "-", "o", "l", "d", "/", "f">>,
       <<"s", "r", "c", "/", "l", "i", "b">> >>

\* r.diff_tree_to_tree(Some(old), Some(new), None) and diff.print(NameOnly):
\* one delta, with the path of its new side, for every path whose blob
\* differs; no rename detection
DiffTreeToTree(old, new) ==
    LET changed == SelectSeq([i \in 1..Len(Paths) |-> i], LAMBDA i : old[i] # new[i])
    IN [k \in 1..Len(changed) |-> Paths[changed[k]]]

\* a result that wraps the list even when it is empty
always_some(paths) == Some(paths)

\* `if !paths.is_empty() { Ok(Some(paths)) } else { Ok(None) }`
some_unless_empty(paths) == IF paths # <<>> THEN Some(paths) ELSE None

\* GitRepoInfo::list_files_changed_between
list_files_changed_between(g, r, commit1, commit2) ==
    LET e1 == expand_partial_commit_id(g, r, commit1)
    IN IF ~e1.ret.ok THEN e1
    ELSE LET e2 == expand_partial_commit_id(g, r, commit2)
             expanded == e1.calls \o e2.calls
    IN IF ~e2.ret.ok THEN Did(e2.ret, expanded)
    ELSE LET opened == to_repository(g)
    IN IF ~opened.ok
       THEN Did(opened, expanded \o (IF g.path.some THEN <<"Repository::open">> ELSE <<>>))
    ELSE LET oid1 == OidFromStr(e1.ret.v)
             oid2 == OidFromStr(e2.ret.v)
             made == expanded \o <<"Repository::open">>
    IN IF ~oid1.ok THEN Did(oid1, made)
    ELSE IF ~oid2.ok THEN Did(oid2, made)
    ELSE LET git2_commit1 == FindCommit(r, oid1.v)
    IN IF ~git2_commit1.ok THEN Did(git2_commit1, made \o <<"find_commit">>)
    ELSE LET git2_commit2 == FindCommit(r, oid2.v)
    IN IF ~git2_commit2.ok THEN Did(git2_commit2, made \o <<"find_commit", "find_commit">>)
    ELSE LET paths == DiffTreeToTree(r.tree[git2_commit1.v], r.tree[git2_commit2.v])
             all == made \o <<"find_commit", "find_commit", "diff_tree_to_tree">>
    IN Did(Ok(some_unless_empty(paths)), all)

\* a loop that diffs against the first parent alone
ChangedAtFirstParent(g, r, parents, i, commit, acc) ==
    IF Len(parents) = 0 THEN acc
    ELSE TheOnly({
           LET made == acc.calls \o path_vec.calls
           IN IF ~path_vec.ret.ok THEN Did(path_vec.ret, made)
              ELSE Did(Ok(IF path_vec.ret.v.some THEN path_vec.ret.v.v ELSE <<>>), made)
           : path_vec \in {list_files_changed_between(
                               g, r, HexEncode(OidOf(parents[1])), commit)} })

\* the loop of list_files_changed_at over the parents from the i-th on:
\* changed_files grows by the paths of every diff; the first error ends it
RECURSIVE ChangedAtLoop(_, _, _, _, _, _)
ChangedAtLoop(g, r, parents, i, commit, acc) ==
    IF i > Len(parents) THEN acc
    ELSE TheOnly({
           LET made == acc.calls \o path_vec.calls
           IN IF ~path_vec.ret.ok THEN Did(path_vec.ret, made)
              ELSE ChangedAtLoop(g, r, parents, i + 1, commit,
                       Did(Ok(IF path_vec.ret.v.some
                              THEN acc.ret.v \o path_vec.ret.v.v
                              ELSE acc.ret.v), made))
           : path_vec \in {list_files_changed_between(
                               g, r, HexEncode(OidOf(parents[i])), commit)} })

\* list_files_changed_at after `let commit = Self::expand_partial_commit_id(..)`,
\* e being what the expansion returned
list_files_changed_at_expanded(g, r, e) ==
    IF ~e.ret.ok THEN e
    ELSE LET opened == to_repository(g)
    IN IF ~opened.ok
       THEN Did(opened, e.calls \o (IF g.path.some THEN <<"Repository::open">> ELSE <<>>))
    ELSE LET oid == OidFromStr(e.ret.v)
             made == e.calls \o <<"Repository::open">>
    IN IF ~oid.ok THEN Did(oid, made)
    ELSE LET git2_commit == FindCommit(r, oid.v)
    IN IF ~git2_commit.ok THEN Did(git2_commit, made \o <<"find_commit">>)
    ELSE TheOnly({ IF ~changed_files.ret.ok THEN changed_files
                   ELSE Did(Ok(some_unless_empty(changed_files.ret.v)),
                            changed_files.calls)
                   : changed_files \in
                       {ChangedAtLoop(g, r, r.parents[git2_commit.v], 1, e.ret.v,
                                      Did(Ok(<<>>), made \o <<"find_commit">>))} })

\* GitRepoInfo::list_files_changed_at
list_files_changed_at(g, r, commit) ==
    TheOnly({ list_files_changed_at_expanded(g, r, e)
              : e \in {expand_partial_commit_id(g, r, commit)} })

\* a test of containment by path segments: the file is the path itself or
\* lies under it as a directory
AnyUnder(files, i, path) ==
    \E k \in i..Len(files) :
        /\ StartsWith(files[k], path)
        /\ \/ Len(files[k]) = Len(path)
           \/ files[k][Len(path) + 1] = "/"
           \/ (Len(path) > 0 /\ path[Len(path)] = "/")

\* a loop that answers true as soon as any file changed
AnyChanged(files, i, path) == i <= Len(files)

\* the loop of has_path_changed_between over the changed files from the i-th on
RECURSIVE AnyStartsWith(_, _, _)
AnyStartsWith(files, i, path) ==
    IF i > Len(files) THEN FALSE
    ELSE IF StartsWith(files[i], path) THEN TRUE
    ELSE AnyStartsWith(files, i + 1, path)

\* GitRepoInfo::has_path_changed_between
has_path_changed_between(g, r, path, c1, c2) ==
    TheOnly({
      IF ~commit1.ret.ok THEN commit1
      ELSE TheOnly({
        IF ~commit2.ret.ok
        THEN Did(commit2.ret, commit1.calls \o commit2.calls)
        ELSE TheOnly({
          TheOnly({
            IF ~changed_files.ret.ok THEN Did(changed_files.ret, made)
            ELSE IF changed_files.ret.v.some
            THEN Did(Ok(AnyStartsWith(changed_files.ret.v.v, 1, path)), made)
            ELSE Did(Ok(FALSE), made)
            : made \in {commit1.calls \o commit2.calls
                        \o changed_files.calls} })
          : changed_files \in {list_files_changed_between(
                                   g, r, commit1.ret.v, commit2.ret.v)} })
        : commit2 \in {expand_partial_commit_id(g, r, c2)} })
      : commit1 \in {expand_partial_commit_id(g, r, c1)} })

\* a loop that looks at the first parent of HEAD alone
PathChangedFirstParent(g, r, path, head_commit_id, parents, i, made) ==
    IF Len(parents) = 0 THEN Did(Ok(FALSE), made)
    ELSE TheOnly({
           IF ~changed.ret.ok THEN Did(changed.ret, made \o changed.calls)
           ELSE Did(Ok(changed.ret.v), made \o changed.calls)
           : changed \in {has_path_changed_between(
                              g, r, path, head_commit_id,
                              HexEncode(OidOf(parents[1])))} })

\* the loop of has_path_changed over the parents of HEAD from the i-th on:
\* the first error and the first parent the path changed against end it
RECURSIVE PathChangedLoop(_, _, _, _, _, _, _)
PathChangedLoop(g, r, path, head_commit_id, parents, i, made) ==
    IF i > Len(parents) THEN Did(Ok(FALSE), made)
    ELSE TheOnly({
           IF ~changed.ret.ok THEN Did(changed.ret, made \o changed.calls)
           ELSE IF changed.ret.v THEN Did(Ok(TRUE), made \o changed.calls)
           ELSE PathChangedLoop(g, r, path, head_commit_id, parents, i + 1,
                                made \o changed.calls)
           : changed \in {has_path_changed_between(
                              g, r, path, head_commit_id,
                              HexEncode(OidOf(parents[i])))} })

\* GitRepoInfo::has_path_changed
has_path_changed(g, r, path) ==
    LET git2_repo == to_repository(g)
    IN IF ~git2_repo.ok
       THEN Did(Err("Could not open repo"),
                IF g.path.some THEN <<"Repository::open">> ELSE <<>>)
    ELSE LET ref == RepoHead(r)
    IN IF ~ref.ok THEN Did(Err("Could not get HEAD ref"), <<"Repository::open", "head">>)
    ELSE LET head == PeelToCommit(ref.v)
             made == <<"Repository::open", "head", "peel_to_commit">>
    IN IF ~head.ok THEN Did(Err("Could not convert to commit"), made)
    ELSE TheOnly({ PathChangedLoop(g, r, path, head_commit_id,
                                   r.parents[head.v], 1, made)
                   : head_commit_id \in {HexEncode(OidOf(head.v))} })


----------------------------------------------------------------------------
\* info.rs: the remote head enumerator. The remote serves a repository:
\*   reachable  whether a connection to it, or a clone of it, succeeds
\*   main       the commit at the head of its default branch `main`
\*   others     the references it advertises besides HEAD and refs/heads/main,
\*              in the order it lists them, each a name and a commit

\* "refs/heads/"
RefsHeads == <<"r", "e", "f", "s", "/", "h", "e", "a", "d", "s", "/">>

Main == <<"m", "a", "i", "n">>

Dev == <<"d", "e", "v">>

\* a branch whose name holds the text "refs/heads/": "x/refs/heads/main"
Nested == <<"x", "/">> \o RefsHeads \o Main

TagV1 == <<"r", "e", "f", "s", "/", "t", "a", "g", "s", "/", "v", "1">>

\* the url the remote serves its repository at: that of the remote `origin`
OriginUrl == RemoteUrl("origin")

\* connection.list(): the references the remote advertises
RemoteList(rem) ==
    << [name |-> HeadSpec, oid |-> OidOf(rem.main)],
       [name |-> RefsHeads \o Main, oid |-> OidOf(rem.main)] >>
    \o [i \in 1..Len(rem.others) |->
           [name |-> rem.others[i][1], oid |-> OidOf(rem.others[i][2])]]

\* the directory `git clone <url> <target> --no-single-branch --depth=1`
\* leaves: HEAD on the default branch, which follows origin, and the commits
\* at the heads of the references
ShallowCloneOf(rem) ==
    [parents |-> [c \in Commits |-> IF c = 1 THEN <<>> ELSE <<c - 1>>],
     tree |-> [c \in Commits |-> <<1, 0, 1>>],
     branches |-> [main |-> rem.main],
     upstreamRemote |-> [main |-> Some("origin")],
     tracking |-> [main |-> Some(rem.main)],
     merge |-> [main |-> "main"],
     remotes |-> {"origin"},
     objects |-> {rem.main} \cup {rem.others[i][2] : i \in 1..Len(rem.others)},
     head |-> [kind |-> "branch", name |-> "main", commit |-> TreeObject],
     shallow |-> TRUE]

\* the scratch directory of a call
ScratchPath == "/tmp/scratch"

\* GitRepoCloneRequest::git_clone_shallow: the identity of the shallow clone
\* of the url of `g` in the scratch directory; its head is the HEAD commit of
\* the clone. An error when the clone cannot be made.
request_git_clone_shallow(g, rem) ==
    IF rem.reachable /\ g.url = [parsed |-> OriginUrl]
    THEN Ok([url |-> g.url,
             credentials |-> g.credentials,
             head |-> Some(CommitMeta(rem.main)),
             branch |-> g.branch,
             path |-> Some(ScratchPath)])
    ELSE Err("Failed to open shallow clone dir")

\* `{:?}` of an Option
DebugOption(o) == IF o.some THEN <<"Some(", o.v, ")">> ELSE <<"None">>

\* `{:?}` of GitCredentials, as #[derive(Debug)] prints it: every field with
\* its value
DebugCredentials(cred) ==
    IF cred.kind = "SshKey"
    THEN <<"SshKey { username: ", cred.username, ", public_key: ">>
         \o DebugOption(cred.public_key)
         \o <<", private_key: ", cred.private_key, ", passphrase: ">>
         \o DebugOption(cred.passphrase) \o <<" }">>
    ELSE <<"UserPassPlaintext { username: ", cred.username,
           ", password: ", cred.password, " }">>

\* a log record: its level and the pieces of its text
LogRecord(level, text) == [level |-> level, text |-> text]

\* GitRepoInfo::build_git2_remotecallback: the callback that offers the
\* credentials of the identity; it logs them first
info_build_git2_remotecallback(g) ==
    Effects(Did(Ok([offers |-> g.credentials]), <<>>),
            IF g.credentials.some
            THEN <<LogRecord("debug", <<"Before building callback: ">>
                                      \o DebugCredentials(g.credentials.v))>>
            ELSE <<>>,
            <<>>)

\* GitRepoInfo::get_remote_name
get_remote_name(r) ==
    LET local_branch == RepoHead(r)
    IN IF ~local_branch.ok THEN local_branch
       ELSE BranchUpstreamRemote(r, local_branch.v)

\* GitRepo::_get_remote_name of lib.rs: the lookup falls back to `origin`
lib_get_remote_name(r) ==
    LET local_branch == RepoHead(r)
    IN IF ~local_branch.ok THEN local_branch
       ELSE LET name == BranchUpstreamRemote(r, local_branch.v)
            IN IF name.ok THEN name ELSE Ok("origin")

\* remote.connect_auth(Direction::Fetch, ..) to the remote at `url`
ConnectAuth(rem, url) ==
    IF rem.reachable /\ url = OriginUrl THEN Ok(RemoteList(rem))
    ELSE Err("git2: failed to connect")

\* `.rsplit(git_branch_ref_prefix).collect::<Vec<&str>>()[0]`: the text after
\* the last place the prefix occurs at
RsplitFirst(name, prefix) ==
    LET at == {i \in 1..(Len(name) - Len(prefix) + 1) :
                  SubSeq(name, i, i + Len(prefix) - 1) = prefix}
    IN IF at = {} THEN name
       ELSE SubSeq(name, (CHOOSE i \in at : \A j \in at : j <= i) + Len(prefix),
                   Len(name))

\* ref_map.insert(key, value)
MapInsert(ref_map, key, value) ==
    [k \in DOMAIN ref_map \cup {key} |-> IF k = key THEN value ELSE ref_map[k]]

\* `branches.contains(&branch_name)`
Contains(branches, branch_name) ==
    \E i \in 1..Len(branches) : branches[i] = branch_name

\* `if let Some(ref branches) = branch_filter { if branches.contains(..) {
\* continue; } }`: is the branch skipped?
filter_skips(branch_filter, branch_name) ==
    branch_filter.some /\ Contains(branch_filter.v, branch_name)


\* the loop of get_remote_branch_head_refs over the references listed, from
\* the i-th on: those under refs/heads/ that the filter does not skip enter
\* the map with the metadata of their commit; a commit the repository does not
\* hold ends the call with an error
RECURSIVE HeadRefsLoop(_, _, _, _, _, _)

\* a loop that leaves out a branch whose commit the repository does not hold
HeadRefsLoopSkipping(r, list, i, branch_filter, ref_map, made) ==
    IF i > Len(list) THEN Did(Ok(ref_map), made)
    ELSE IF \/ ~StartsWith(list[i].name, RefsHeads)
            \/ filter_skips(branch_filter, RsplitFirst(list[i].name, RefsHeads))
            \/ ~FindCommit(r, list[i].oid).ok
    THEN HeadRefsLoop(r, list, i + 1, branch_filter, ref_map, made)
    ELSE HeadRefsLoop(r, list, i + 1, branch_filter,
                      MapInsert(ref_map, RsplitFirst(list[i].name, RefsHeads),
                                CommitMeta(FindCommit(r, list[i].oid).v)),
                      made \o <<"find_commit">>)

HeadRefsLoop(r, list, i, branch_filter, ref_map, made) ==
    IF i > Len(list) THEN Did(Ok(ref_map), made)
    ELSE IF ~StartsWith(list[i].name, RefsHeads)
    THEN HeadRefsLoop(r, list, i + 1, branch_filter, ref_map, made)
    ELSE TheOnly({
           IF filter_skips(branch_filter, branch_name)
           THEN HeadRefsLoop(r, list, i + 1, branch_filter, ref_map, made)
           ELSE TheOnly({
                  IF ~commit.ok THEN Did(commit, made \o <<"find_commit">>)
                  ELSE HeadRefsLoop(r, list, i + 1, branch_filter,
                                    MapInsert(ref_map, branch_name, CommitMeta(commit.v)),
                                    made \o <<"find_commit">>)
                  : commit \in {FindCommit(r, list[i].oid)} })
           : branch_name \in {RsplitFirst(list[i].name, RefsHeads)} })

\* get_remote_branch_head_refs once it has the repository `r` and has built
\* its callback
head_refs_with_callback(g, r, rem, branch_filter, made) ==
    LET remote_name == get_remote_name(r)
    IN IF ~remote_name.ok
       THEN Did(Err("Could not read remote name from git2::Repository"),
                made \o <<"get_remote_name">>)
    ELSE LET found == FindRemoteUrl(r, remote_name.v)
             url == IF found.ok THEN found.v.v ELSE remote_name.v
             connection == ConnectAuth(rem, url)
             connected == made \o <<"get_remote_name", "find_remote">>
                               \o (IF found.ok THEN <<>> ELSE <<"remote_anonymous">>)
                               \o <<"connect_auth">>
    IN IF ~connection.ok THEN Did(Err("Unable to connect to git repo"), connected)
       ELSE HeadRefsLoop(r, connection.v, 1, branch_filter, <<>>,
                         connected \o <<"list">>)

\* get_remote_branch_head_refs once it has the repository `r`: it builds the
\* callback, which writes to the log, and goes on
head_refs_of_repository(g, r, rem, branch_filter, made) ==
    TheOnly({ Effects(did, info_build_git2_remotecallback(g).logs, <<>>)
              : did \in {head_refs_with_callback(g, r, rem, branch_filter, made)} })

\* an identity that is taken to have no checkout, whatever its path
never_local(g) == FALSE

\* `if let Some(p) = self.path.clone()`: is there a checkout to open?
has_local_path(g) == g.path.some

\* GitRepoInfo::get_remote_branch_head_refs; temp_dir is whether the scratch
\* directory could be created
get_remote_branch_head_refs(g, r, rem, branch_filter, temp_dir) ==
    IF ~temp_dir
    THEN Did(Err("Unable to create temp directory"), <<"Temp::new_dir">>)
    ELSE IF has_local_path(g)
    THEN LET opened == to_repository_from_path(g.path.v)
         IN IF ~opened.ok THEN Did(opened, <<"Temp::new_dir", "Repository::open">>)
            ELSE head_refs_of_repository(g, r, rem, branch_filter,
                                         <<"Temp::new_dir", "Repository::open">>)
    ELSE LET clone == request_git_clone_shallow(g, rem)
         IN IF ~clone.ok THEN Did(clone, <<"Temp::new_dir", "git_clone_shallow">>)
            ELSE head_refs_of_repository(
                     g, ShallowCloneOf(rem), rem, branch_filter,
                     <<"Temp::new_dir", "git_clone_shallow", "Repository::open">>)

\* a comparison that reports nothing new for a head that was never resolved
heads_differ_when_known(head, cloned) == head.some /\ head # cloned

\* `self.head != repo.head`
heads_differ(head, cloned) == head # cloned

\* a test that lets an identity without branch through
branch_assumed_set(branch) == TRUE

\* `if let Some(branch) = self.branch.clone()`
branch_is_set(branch) == branch.some

\* GitRepoInfo::new_commits_exist; temp_dir is whether the scratch directory
\* could be created
new_commits_exist(g, rem, temp_dir) ==
    LET gitrepo == GitRepo_new(g.url.parsed)
    IN IF ~gitrepo.ok THEN Did(Err("Could not crete new GitUrl"), <<>>)
    ELSE IF ~branch_is_set(g.branch) THEN Did(Err("No branch set"), <<>>)
    ELSE IF ~temp_dir
    THEN Did(Err("Could not create temporary dir"), <<"Temp::new_dir">>)
    ELSE LET request == [with_branch(gitrepo.v, g.branch)
                            EXCEPT !.credentials = g.credentials]
             cloned == request_git_clone_shallow(request, rem)
             made == <<"Temp::new_dir", "git_clone_shallow">>
    IN IF ~cloned.ok THEN Did(Err("Could not shallow clone dir"), made)
       ELSE Did(Ok(heads_differ(g.head, cloned.v.head)), made)

----------------------------------------------------------------------------
\* GitRepoCloner: the clone operations

\* From<GitRepo> for GitRepoCloner
GitRepoCloner_from(g) ==
    [url |-> g.url, credentials |-> g.credentials, branch |-> g.branch,
     path |-> g.path]

\* the same repository by the scp-like ssh address
SshUrl == "git@example.com:origin.git"

\* GitUrl::parse: the parts of a url. The model knows the https url of the
\* remote, which holds no user, and its ssh address, whose user is `git`.
GitUrl_parse(url) ==
    CASE url = OriginUrl ->
            [scheme |-> "https", user |-> None, token |-> None,
             host |-> "example.com", path |-> "origin.git"]
      [] url = SshUrl ->
            [scheme |-> "ssh", user |-> Some("git"), token |-> None,
             host |-> "example.com", path |-> "origin.git"]
      [] OTHER ->
            [scheme |-> "file", user |-> None, token |-> None,
             host |-> "", path |-> url]

\* GitUrl::trim_auth: the url without user and token
trim_auth(u) == [u EXCEPT !.user = None, !.token = None]

\* `format!("{}", url)`: an ssh address shows its user, an https url its user
\* and its token
Display(u) ==
    CASE u.scheme = "ssh" ->
            (IF u.user.some THEN u.user.v \o "@" ELSE "")
            \o u.host \o ":" \o u.path
      [] u.scheme = "https" ->
            "https://"
            \o (IF u.user.some /\ u.token.some THEN u.user.v \o ":" \o u.token.v \o "@"
                ELSE IF u.user.some THEN u.user.v \o "@"
                ELSE IF u.token.some THEN u.token.v \o "@"
                ELSE "")
            \o u.host \o "/" \o u.path
      [] OTHER -> u.path

\* does the remote serve its repository at this url? Over ssh it takes the
\* user `git` alone.
Serves(u) ==
    /\ u.host = "example.com"
    /\ u.path = "origin.git"
    /\ u.scheme \in {"https", "ssh"}
    /\ u.scheme = "ssh" => u.user = Some("git")

\* GitRepoCloner::build_git2_remotecallback: the callback that offers the
\* credentials of the cloner; it logs them first
build_git2_remotecallback(g) ==
    Effects(Did(Ok([offers |-> g.credentials]), <<>>),
            IF g.credentials.some
            THEN <<LogRecord("debug", <<"Before building callback: ">>
                                      \o DebugCredentials(g.credentials.v))>>
            ELSE <<>>,
            <<>>)

\* what the target directory of a clone holds: nothing, the repository an
\* earlier clone left there, or the repository this clone wrote
Targets == {"empty", "earlier"}

\* the directory the clone is made in
TargetDir == "/tmp/target"

\* the reference a branch name asks the remote for
BranchRef == [main |-> RefsHeads \o Main, dev |-> RefsHeads \o Dev]

Advertises(rem, name) ==
    \E i \in 1..Len(RemoteList(rem)) : RemoteList(rem)[i].name = name

\* git2::build::RepoBuilder::clone into `target`: the transport fails when
\* the remote cannot be reached, the target is not empty, or the branch asked
\* for is not one the remote advertises
BuilderClone(cloner, rem, target) ==
    IF /\ rem.reachable
       /\ Serves(GitUrl_parse(cloner.url.parsed))
       /\ target = "empty"
       /\ cloner.branch.some => Advertises(rem, BranchRef[cloner.branch.v])
    THEN Ok([holds |-> "cloned", head |-> rem.main])
    ELSE Err("git2: clone failed")

\* GitRepoCloner::git_clone
git_clone(cloner, rem, target) ==
    LET cb == build_git2_remotecallback(cloner)
        cloned == BuilderClone(cloner, rem, target)
        made == <<"build_git2_remotecallback", "RepoBuilder::clone">>
    IN IF cloned.ok THEN Effects(Did(Ok(cloned.v), made), cb.logs, <<>>)
       ELSE Effects(Did(Panic("failed to clone"), made), cb.logs, <<>>)

\* the url git_clone_shallow hands to the external client: with an ssh key
\* the url without its own user and token and with the user of the key, with
\* user and password the url with both, without credentials the url without
\* user and token
shallow_clone_url(cloner) ==
    LET url == GitUrl_parse(cloner.url.parsed)
    IN IF ~cloner.credentials.some THEN trim_auth(url)
       ELSE IF cloner.credentials.v.kind = "SshKey"
       THEN [trim_auth(url) EXCEPT !.user = Some(cloner.credentials.v.username)]
       ELSE [url EXCEPT !.user = Some(cloner.credentials.v.username),
                        !.token = Some(cloner.credentials.v.password)]

\* the command line of git_clone_shallow
shell_clone_command(cloner) ==
    <<"git", "clone", Display(shallow_clone_url(cloner)), TargetDir,
      "--no-single-branch", "--depth=1">>
    \o (IF cloner.credentials.some /\ cloner.credentials.v.kind = "SshKey"
        THEN <<"--config",
               "core.sshcommand=ssh -i " \o cloner.credentials.v.private_key>>
        ELSE <<>>)

\* whether `git clone <url> <target> --no-single-branch --depth=1` exits with
\* success: the command line names no branch
CliCloneWorks(cloner, rem, target) ==
    /\ rem.reachable
    /\ Serves(shallow_clone_url(cloner))
    /\ target = "empty"

\* what the target holds once the subprocess is over
TargetAfter(cloner, rem, target) ==
    IF CliCloneWorks(cloner, rem, target) THEN "cloned" ELSE target

\* git2::Repository::open(target)
OpenTarget(rem, holds) ==
    IF holds = "empty" THEN Err("git2: could not find repository")
    ELSE Ok([holds |-> holds, head |-> rem.main])

\* whether the variant of the credentials waits for the subprocess before it
\* opens the target: UserPassPlaintext takes the stdout handle only
Waits(credentials) ==
    ~(credentials.some /\ credentials.v.kind = "UserPassPlaintext")

\* what git_clone_shallow logs before it starts the subprocess: without
\* credentials, the url and the directory
shallow_clone_logs(cloner) ==
    IF cloner.credentials.some THEN <<>>
    ELSE <<LogRecord("info", <<"Url: ", Display(shallow_clone_url(cloner))>>),
           LogRecord("info", <<"Directory: ", TargetDir>>)>>

\* what it logs once the subprocess is over: with an ssh key, its output
shallow_clone_output_logs(cloner) ==
    IF cloner.credentials.some /\ cloner.credentials.v.kind = "SshKey"
    THEN <<LogRecord("debug", <<"Clone output: ", "Output { .. }">>)>>
    ELSE <<>>

\* GitRepoCloner::git_clone_shallow. spawn: whether `git` could be started;
\* wait: whether waiting for it gave its output; done: whether a subprocess
\* that is not waited for has written the target by the time it is opened
git_clone_shallow(cloner, rem, target, spawn, wait, done) ==
    LET before == shallow_clone_logs(cloner)
        after == before \o shallow_clone_output_logs(cloner)
        command == <<shell_clone_command(cloner)>>
    IN
    IF ~spawn
    THEN Effects(Did(Panic("failed to run git clone"), <<"Command::spawn">>),
                 before, <<>>)
    ELSE IF Waits(cloner.credentials)
    THEN IF ~wait
         THEN Effects(Did(Panic("failed to open stdout"),
                          <<"Command::spawn", "wait_with_output">>),
                      before, command)
         ELSE LET opened == OpenTarget(rem, TargetAfter(cloner, rem, target))
                  made == <<"Command::spawn", "wait_with_output",
                            "Repository::open">>
              IN IF opened.ok THEN Effects(Did(Ok(opened.v), made), after, command)
                 ELSE Effects(Did(Panic("Failed to open shallow clone dir"), made),
                              after, command)
    ELSE LET opened == OpenTarget(rem, IF done
                                       THEN TargetAfter(cloner, rem, target)
                                       ELSE target)
             made == <<"Command::spawn", "Repository::open">>
         IN IF opened.ok THEN Effects(Did(Ok(opened.v), made), after, command)
            ELSE Effects(Did(Panic("Failed to open shallow clone dir"), made),
                         after, command)

----------------------------------------------------------------------------
\* The arguments the operations are called with

CommitId(c) == IdOf(c)

FullIds == {CommitId(c) : c \in Commits}

\* forty hex digits that name no object
MissingId == [i \in 1..FullIdLen |-> "d"]

\* forty characters that are no hex digits
NotHexId == [i \in 1..FullIdLen |-> "z"]

\* the id of commit 1 in upper case
UpperId == [i \in 1..FullIdLen |-> UpperHexChars[HexValue(CommitId(1)[i]) + 1]]

\* one character more than a full id
TooLongId == CommitId(1) \o <<"1">>

\* four digits shared by commits 1 and 2
AmbiguousAbbrev == Abbrev(1, 4)

TooShortAbbrev == Abbrev(NumCommits, 3)

Abbrevs == {Abbrev(c, AbbrevLen) : c \in Commits}

RevisionArgs ==
    FullIds \cup Abbrevs \cup
    {MissingId, NotHexId, UpperId, TooLongId, AmbiguousAbbrev, TooShortAbbrev,
     Abbrev(TreeObject, AbbrevLen), HeadSpec}

\* commit hints of GitRepo::open
CommitHints ==
    {None} \cup {Some(s) : s \in FullIds \cup {MissingId, NotHexId, Abbrev(1, AbbrevLen)}}

BranchHints == {None, Some("main"), Some("work"), Some("nosuch")}

PathArgs == RepoPaths \cup {NoRepoPath}

QueryPaths ==
    { <<"s", "r", "c">>, <<"s", "r", "c", "/">>, <<"n", "o">>,
      <<"R", "E", "A", "D", "M", "E">>, <<"s", "r">>, <<>> }

----------------------------------------------------------------------------
\* Initial states

NoIdentity == [url |-> [parsed |-> ""], credentials |-> None, head |-> None,
               branch |-> None, path |-> None]

Idle ==
    /\ op = "none"
    /\ args = <<>>
    /\ ret = None
    /\ calls = <<>>
    /\ logs = <<>>
    /\ spawned = <<>>

\* no remote is reachable
NoRemote == [reachable |-> FALSE, refs |-> <<>>]

BaseTree == <<1, 0, 1>>

TreeSet == {<<1, 0, 1>>, <<1, 0, 2>>, <<1, 1, 2>>}

LinearParents == [c \in Commits |-> IF c = 1 THEN <<>> ELSE <<c - 1>>]

HeadStates ==
    {[kind |-> "branch", name |-> b, commit |-> TreeObject] : b \in {"main", "work", "unborn"}}
    \cup {[kind |-> "detached", name |-> "", commit |-> c] : c \in Commits}

\* the upstream of branch main: not configured; or configured to origin, which
\* is defined or not, with the remote-tracking reference present or not
UpstreamConfigs ==
    {[remote |-> None, tracking |-> None, remotes |-> {}, merge |-> "main"]}
    \cup {[remote |-> Some("origin"), tracking |-> t, remotes |-> rs, merge |-> m] :
            t \in {None} \cup {Some(o) : o \in Objects},
            rs \in {{}, {"origin"}},
            m \in {"main", "trunk"}}

\* repositories for GitRepo::open: a linear history; branch main at any object
\* with any upstream configuration, branch work local only, any HEAD
InitResolver ==
    /\ \E m \in Objects, up \in UpstreamConfigs, h \in HeadStates, sh \in BOOLEAN :
         repo = [parents |-> LinearParents,
                 tree |-> [c \in Commits |-> BaseTree],
                 branches |-> [main |-> m, work |-> 1],
                 upstreamRemote |-> [main |-> up.remote, work |-> None],
                 tracking |-> [main |-> up.tracking, work |-> None],
                 merge |-> [main |-> up.merge, work |-> "work"],
                 remotes |-> up.remotes,
                 objects |-> Commits,
                 head |-> h,
                 shallow |-> sh]
    /\ self = NoIdentity
    /\ remote = NoRemote
    /\ Idle

\* repositories for the ancestry check: a linear history whose object store
\* holds every commit or has lost the oldest, which no reference points at;
\* branch main at any other object, with or without an upstream; branch work
\* at the newest commit
InitAncestry ==
    /\ \E m \in Objects \ {1}, t \in {None} \cup {Some(o) : o \in Objects \ {1}},
          held \in {Commits, Commits \ {1}},
          h \in {[kind |-> "branch", name |-> "main", commit |-> TreeObject],
                 [kind |-> "detached", name |-> "", commit |-> NumCommits]} :
         repo = [parents |-> LinearParents,
                 tree |-> [c \in Commits |-> BaseTree],
                 branches |-> [main |-> m, work |-> NumCommits],
                 upstreamRemote |-> [main |-> IF t.some THEN Some("origin") ELSE None,
                                     work |-> None],
                 tracking |-> [main |-> t, work |-> None],
                 merge |-> [main |-> "main", work |-> "work"],
                 remotes |-> {"origin"},
                 objects |-> held,
                 head |-> h,
                 shallow |-> FALSE]
    /\ self = NoIdentity
    /\ remote = NoRemote
    /\ Idle

\* the parents a commit may have: its predecessor, its two predecessors (a
\* merge), or none (a root)
ParentChoices(c) ==
    IF c = 1 THEN {<<>>}
    ELSE IF c = 2 THEN {<<1>>, <<>>}
    ELSE {<<c - 1>>, <<c - 1, c - 2>>, <<>>}

InfoIdentity(path) ==
    [url |-> [parsed |-> RemoteUrl("origin")], credentials |-> None,
     head |-> Some(CommitMeta(NumCommits)), branch |-> Some("main"), path |-> path]

\* repositories for the change detector: any history and trees, HEAD on
\* branch main at the last commit; the identity has a path or none
InitInfo ==
    /\ \E ps \in [Commits -> UNION {ParentChoices(c) : c \in Commits}],
          ts \in [Commits -> TreeSet], sh \in BOOLEAN :
         /\ \A c \in Commits : ps[c] \in ParentChoices(c)
         /\ ts[1] = BaseTree
         /\ repo = [parents |-> ps,
                    tree |-> ts,
                    branches |-> [main |-> NumCommits, work |-> 1],
                    upstreamRemote |-> [main |-> Some("origin"), work |-> None],
                    tracking |-> [main |-> Some(NumCommits), work |-> None],
                    merge |-> [main |-> "main", work |-> "work"],
                    remotes |-> {"origin"},
                    objects |-> Commits,
                    head |-> [kind |-> "branch", name |-> "main", commit |-> TreeObject],
                    shallow |-> sh]
    /\ self \in {InfoIdentity(Some("/repo")), InfoIdentity(None)}
    /\ remote = NoRemote
    /\ Idle

\* what the remote may advertise besides its default branch
OtherRefs ==
    { <<>>,
      << <<RefsHeads \o Dev, NumCommits>>, <<TagV1, 1>> >>,
      << <<RefsHeads \o Nested, 1>>, <<RefsHeads \o Dev, 2>> >> }

\* the local repository of an identity with a path: HEAD on branch main,
\* which follows origin, follows a remote that is not defined, or follows
\* nothing; or a detached HEAD. The store holds every commit, or all but the
\* newest.
LocalRepos ==
    {[parents |-> LinearParents,
      tree |-> [c \in Commits |-> BaseTree],
      branches |-> [main |-> 1, work |-> 1],
      upstreamRemote |-> [main |-> up, work |-> None],
      tracking |-> [main |-> IF up.some THEN Some(1) ELSE None, work |-> None],
      merge |-> [main |-> "main", work |-> "work"],
      remotes |-> {"origin"},
      objects |-> held,
      head |-> h,
      shallow |-> FALSE] :
        up \in {None, Some("origin"), Some("backup")},
        held \in {Commits, Commits \ {NumCommits}},
        h \in {[kind |-> "branch", name |-> "main", commit |-> TreeObject],
               [kind |-> "detached", name |-> "", commit |-> 1]}}

UserPass == [kind |-> "UserPassPlaintext", username |-> "user", password |-> "secret"]

SshKey == [kind |-> "SshKey", username |-> "git", public_key |-> None,
           private_key |-> "/home/user/.ssh/id", passphrase |-> Some("phrase")]

\* the identities the remote operations are called on
RemoteIdentities ==
    {[url |-> [parsed |-> OriginUrl], credentials |-> cr, head |-> hd,
      branch |-> br, path |-> pa] :
        cr \in {None, Some(UserPass), Some(SshKey)},
        hd \in {None} \cup {Some(CommitMeta(c)) : c \in {1, NumCommits}},
        br \in {None, Some("main"), Some("dev")},
        pa \in {None, Some("/repo")}}

\* a remote, a local repository and an identity of it
InitRemote ==
    /\ repo \in LocalRepos
    /\ self \in RemoteIdentities
    /\ remote \in {[reachable |-> up, main |-> c, others |-> o] :
                      up \in BOOLEAN, c \in Commits, o \in OtherRefs}
    /\ Idle

\* the identities a clone is asked of: a url, credentials and a branch, no
\* path and no head yet
CloneIdentities ==
    {[url |-> [parsed |-> u], credentials |-> cr, head |-> None,
      branch |-> br, path |-> None] :
        u \in {OriginUrl, SshUrl},
        cr \in {None, Some(UserPass), Some(SshKey)},
        br \in {None, Some("main"), Some("dev")}}

\* a remote and an identity to clone it with; the repository on disk is what
\* an earlier clone of the remote holds
InitClone ==
    /\ self \in CloneIdentities
    /\ remote \in {[reachable |-> up, main |-> c, others |-> o] :
                      up \in BOOLEAN, c \in Commits, o \in OtherRefs}
    /\ repo = ShallowCloneOf(remote)
    /\ Idle

----------------------------------------------------------------------------
\* Actions: one call of an operation

\* The caller makes one call at a time: it calls an operation when it holds no
\* result, and the call runs to its return.
Returned(name, arguments, did) ==
    /\ op = "none"
    /\ op' = name
    /\ args' = arguments
    /\ \E d \in {did} :
          /\ ret' = d.ret
          /\ calls' = d.calls
          /\ logs' = IF "logs" \in DOMAIN d THEN d.logs ELSE <<>>
          /\ spawned' = IF "spawned" \in DOMAIN d THEN d.spawned ELSE <<>>
    /\ UNCHANGED <<repo, self, remote>>

Open ==
    \E path \in PathArgs, branch \in BranchHints, commit_id \in CommitHints :
        Returned("open",
                 [path |-> path, branch |-> branch, commit_id |-> commit_id],
                 Did(GitRepo_open(repo, path, branch, commit_id), <<>>))

GetGit2Commit ==
    \E branch \in BranchHints, commit_id \in CommitHints :
        Returned("get_git2_commit",
                 [branch |-> branch, commit_id |-> commit_id],
                 Did(get_git2_commit(repo, branch, commit_id), <<>>))

\* the branches of a repository: its local branches and their upstreams
BranchesOf(r) ==
    {LocalRef(r, b) : b \in DOMAIN r.branches}
    \cup {BranchUpstream(r, LocalRef(r, b)).v :
             b \in {n \in DOMAIN r.branches : BranchUpstream(r, LocalRef(r, n)).ok}}

IsCommitInBranch ==
    \E commit \in repo.objects, branch \in BranchesOf(repo) :
        Returned("is_commit_in_branch",
                 [commit |-> commit, branch |-> branch],
                 Did(is_commit_in_branch(repo, commit, branch), <<>>))

\* the identities with_commit is called on: built with GitRepo::new and the
\* with_* methods, or returned by open
CommitIdentities ==
    {[url |-> [parsed |-> RemoteUrl("origin")], credentials |-> cr,
      head |-> None, branch |-> br, path |-> pa] :
        cr \in {None, Some(UserPass)},
        br \in {None, Some("main"), Some("nosuch")},
        pa \in {None, Some("/repo")}}

WithCommit ==
    \E g \in CommitIdentities, commit_id \in CommitHints :
        Returned("with_commit",
                 [g |-> g, commit_id |-> commit_id],
                 Did(with_commit(g, repo, commit_id), <<>>))

ExpandPartialCommitId ==
    \E partial \in RevisionArgs :
        Returned("expand_partial_commit_id",
                 [partial |-> partial],
                 expand_partial_commit_id(self, repo, partial))

CommitPairs ==
    (FullIds \X FullIds)
    \cup {<<x, CommitId(NumCommits)>> : x \in RevisionArgs}
    \cup {<<CommitId(1), x>> : x \in RevisionArgs}

ListFilesChangedBetween ==
    \E pair \in CommitPairs :
        Returned("list_files_changed_between",
                 [commit1 |-> pair[1], commit2 |-> pair[2]],
                 list_files_changed_between(self, repo, pair[1], pair[2]))

ListFilesChangedAt ==
    \E commit \in RevisionArgs :
        Returned("list_files_changed_at",
                 [commit |-> commit],
                 list_files_changed_at(self, repo, commit))

QueryPairs ==
    (FullIds \X FullIds)
    \cup {<<Abbrev(1, AbbrevLen), Abbrev(NumCommits, AbbrevLen)>>,
          <<MissingId, CommitId(1)>>}

HasPathChangedBetween ==
    \E path \in QueryPaths, pair \in QueryPairs :
        Returned("has_path_changed_between",
                 [path |-> path, commit1 |-> pair[1], commit2 |-> pair[2]],
                 has_path_changed_between(self, repo, path, pair[1], pair[2]))

HasPathChanged ==
    \E path \in QueryPaths :
        Returned("has_path_changed",
                 [path |-> path],
                 has_path_changed(self, repo, path))

\* the filters get_remote_branch_head_refs is called with
BranchFilters ==
    {None, Some(<<>>), Some(<<Main>>), Some(<<Dev, <<"n", "o">> >>)}

GetRemoteBranchHeadRefs ==
    \E branch_filter \in BranchFilters, temp_dir \in BOOLEAN :
        Returned("get_remote_branch_head_refs",
                 [branch_filter |-> branch_filter, temp_dir |-> temp_dir],
                 get_remote_branch_head_refs(self, repo, remote, branch_filter, temp_dir))

NewCommitsExist ==
    \E temp_dir \in BOOLEAN :
        Returned("new_commits_exist",
                 [temp_dir |-> temp_dir],
                 new_commits_exist(self, remote, temp_dir))

GitClone ==
    \E target \in Targets :
        Returned("git_clone",
                 [target |-> target],
                 git_clone(GitRepoCloner_from(self), remote, target))

GitCloneShallow ==
    \E target \in Targets, spawn \in BOOLEAN, wait \in BOOLEAN, done \in BOOLEAN :
        Returned("git_clone_shallow",
                 [target |-> target, spawn |-> spawn, wait |-> wait,
                  done |-> done],
                 git_clone_shallow(GitRepoCloner_from(self), remote, target,
                                   spawn, wait, done))

BuildGit2Remotecallback ==
    Returned("build_git2_remotecallback", <<>>,
             build_git2_remotecallback(GitRepoCloner_from(self)))

InfoBuildGit2Remotecallback ==
    Returned("GitRepoInfo::build_git2_remotecallback", <<>>,
             info_build_git2_remotecallback(self))

\* the caller drops the result it holds and is free to call again
Forget ==
    /\ op # "none"
    /\ op' = "none"
    /\ args' = <<>>
    /\ ret' = None
    /\ calls' = <<>>
    /\ logs' = <<>>
    /\ spawned' = <<>>
    /\ UNCHANGED <<repo, self, remote>>

----------------------------------------------------------------------------
\* Specifications

\* GitRepo::open and the resolver
Next == Open \/ GetGit2Commit \/ WithCommit \/ Forget

Spec == InitResolver /\ [][Next]_vars

\* the ancestry check and the resolver that calls it
NextAncestry == IsCommitInBranch \/ GetGit2Commit \/ Forget

SpecAncestry == InitAncestry /\ [][NextAncestry]_vars

\* the change detector
NextInfo ==
    \/ ExpandPartialCommitId
    \/ ListFilesChangedBetween
    \/ ListFilesChangedAt
    \/ HasPathChangedBetween
    \/ HasPathChanged
    \/ Forget

SpecInfo == InitInfo /\ [][NextInfo]_vars

\* the remote head enumerator, the check for new commits and the clones
NextRemote ==
    \/ GetRemoteBranchHeadRefs
    \/ NewCommitsExist
    \/ GitClone
    \/ GitCloneShallow
    \/ BuildGit2Remotecallback
    \/ InfoBuildGit2Remotecallback
    \/ Forget

SpecRemote == InitRemote /\ [][NextRemote]_vars

\* the clone operations, on cloners of either address of the remote
NextClone ==
    \/ GitClone
    \/ GitCloneShallow
    \/ BuildGit2Remotecallback
    \/ Forget

SpecClone == InitClone /\ [][NextClone]_vars


----------------------------------------------------------------------------
\* What the claims are stated against: the repository itself

\* the metadata GitRepo carries for commit c
ExpectedMeta(c) ==
    [id |-> CommitId(c), message |-> Some(MessageOf(c)), timestamp |-> Some(TimeOf(c))]

OnBranch(r) == r.head.kind = "branch" /\ r.head.name \in DOMAIN r.branches

HeadObject(r) ==
    IF r.head.kind = "detached" THEN r.head.commit ELSE r.branches[r.head.name]

HeadPeels(r) ==
    \/ r.head.kind = "detached"
    \/ OnBranch(r) /\ HeadObject(r) \in Commits

\* local branch b has an upstream tracking branch
HasUpstream(r, b) ==
    /\ r.upstreamRemote[b].some
    /\ r.upstreamRemote[b].v \in r.remotes
    /\ r.tracking[b].some

\* the object at the head of the upstream of b, or of b itself without one
TrackedObject(r, b) ==
    IF HasUpstream(r, b) THEN r.tracking[b].v ELSE r.branches[b]

\* the branch HEAD is on names a remote that is not defined
DanglingRemote(r) ==
    /\ OnBranch(r)
    /\ r.upstreamRemote[r.head.name].some
    /\ r.upstreamRemote[r.head.name].v \notin r.remotes

ShallowMessage == "Can't open by commit on shallow clones"

----------------------------------------------------------------------------
\* C1: GitRepo::open with a commit id on a shallow clone fails, whatever the
\* branch hint and the commit id, also for a commit the clone holds; once the
\* repository is opened and its remote url read, the error is the shallow-clone
\* refusal, and HEAD is not resolved instead.
C1_OpenByCommitOnShallowFails ==
    (op = "open" /\ args.commit_id.some /\ repo.shallow) =>
        /\ ~ret.ok
        /\ ~ret.panic
        /\ (args.path \in RepoPaths /\ repo.head.kind # "branch") =>
               ret.e = ShallowMessage
        /\ (args.path \in RepoPaths /\ OnBranch(repo) /\ ~DanglingRemote(repo)) =>
               ret.e = ShallowMessage

\* C1 witness: a shallow clone opened by the id of its own HEAD commit
C1_Witness ==
    /\ op = "open"
    /\ repo.shallow
    /\ HeadPeels(repo)
    /\ args.path \in RepoPaths
    /\ args.branch = None
    /\ args.commit_id = Some(CommitId(HeadObject(repo)))
    /\ ~ret.ok
    /\ ret.e = ShallowMessage

\* C2 as stated, where open succeeds: open(path, None, None) on a repository
\* whose HEAD peels to a commit returns head = the metadata of the HEAD commit.
C2_HeadIsHeadCommit ==
    (/\ op = "open"
     /\ args.branch = None
     /\ args.commit_id = None
     /\ args.path \in RepoPaths
     /\ HeadPeels(repo)
     /\ ret.ok) =>
        ret.v.head = Some(ExpectedMeta(HeadObject(repo)))

\* C2 amended: every successful open has a head; open(path, None, None) on a
\* repository whose HEAD peels to a commit succeeds unless the remote of the
\* current branch is not defined or the upstream reference does not peel to a
\* commit, and its head is the tip of the upstream of the current branch when
\* HEAD is on a branch that has one, the HEAD commit otherwise.
C2_OpenDefaultsResolveUpstream ==
    /\ (op = "open" /\ ret.ok) => ret.v.head.some
    /\ (/\ op = "open"
        /\ args.branch = None
        /\ args.commit_id = None
        /\ args.path \in RepoPaths
        /\ HeadPeels(repo)) =>
           LET chosen == IF OnBranch(repo) THEN TrackedObject(repo, repo.head.name)
                         ELSE HeadObject(repo)
           IN /\ ret.ok <=> (~DanglingRemote(repo) /\ chosen \in Commits)
              /\ ret.ok => ret.v.head = Some(ExpectedMeta(chosen))
              /\ ~ret.ok => ~ret.panic

\* C2 witness: HEAD on a branch whose upstream is at another commit; open
\* with defaults returns the upstream's commit
C2_Witness ==
    /\ op = "open"
    /\ args.branch = None
    /\ args.commit_id = None
    /\ OnBranch(repo)
    /\ HeadPeels(repo)
    /\ HasUpstream(repo, repo.head.name)
    /\ repo.tracking[repo.head.name].v \in Commits
    /\ repo.tracking[repo.head.name].v # HeadObject(repo)
    /\ ret.ok
    /\ ret.v.head.v.id = CommitId(repo.tracking[repo.head.name].v)

\* C3: with a branch and no commit id the resolver returns the commit at the
\* head of the upstream of that local branch, of the branch itself when it has
\* no upstream, an error only when that reference does not peel to a commit,
\* and None for a branch that does not exist; open carries that commit as head.
C3_BranchResolvesToUpstreamHead ==
    /\ (op = "get_git2_commit" /\ args.branch.some /\ ~args.commit_id.some) =>
           IF args.branch.v \notin DOMAIN repo.branches THEN ret = Ok(None)
           ELSE IF TrackedObject(repo, args.branch.v) \in Commits
           THEN ret = Ok(Some(TrackedObject(repo, args.branch.v)))
           ELSE ~ret.ok /\ ~ret.panic
    /\ (/\ op = "open"
        /\ args.branch.some
        /\ args.branch.v \in DOMAIN repo.branches
        /\ ~args.commit_id.some
        /\ ret.ok) =>
           ret.v.head = Some(ExpectedMeta(TrackedObject(repo, args.branch.v)))

\* C3 witness: branch main, not the branch HEAD is on, with an upstream at
\* another commit than its own
C3_Witness ==
    /\ op = "get_git2_commit"
    /\ args.branch = Some("main")
    /\ args.commit_id = None
    /\ repo.head.kind = "branch"
    /\ repo.head.name = "work"
    /\ HasUpstream(repo, "main")
    /\ repo.tracking["main"].v \in Commits
    /\ repo.tracking["main"].v # repo.branches["main"]
    /\ ret = Ok(Some(repo.tracking["main"].v))

\* C4: with a commit id the resolver returns the commit object of that id, the
\* same for every branch argument; two calls of open that differ only in the
\* branch hint succeed or fail together and carry the same head.
C4_CommitIdIgnoresBranch ==
    /\ (op = "get_git2_commit" /\ args.commit_id.some) =>
           /\ \A b \in BranchHints : get_git2_commit(repo, b, args.commit_id) = ret
           /\ IF \E c \in Commits : CommitId(c) = args.commit_id.v
              THEN \E c \in Commits : CommitId(c) = args.commit_id.v /\ ret = Ok(Some(c))
              ELSE ~ret.ok /\ ~ret.panic
    /\ (op = "open" /\ args.commit_id.some) =>
           \A b \in BranchHints :
               LET other == GitRepo_open(repo, args.path, b, args.commit_id)
               IN /\ other.ok = ret.ok
                  /\ ret.ok => /\ other.v.head = ret.v.head
                               /\ ret.v.head.some
                               /\ ret.v.head.v.id = args.commit_id.v

\* C4 witness: open by the id of the last commit with branch main, which is
\* at the first commit and does not contain it
C4_Witness ==
    /\ op = "open"
    /\ args.branch = Some("main")
    /\ repo.branches["main"] = 1
    /\ args.commit_id = Some(CommitId(NumCommits))
    /\ ret.ok
    /\ ret.v.branch = Some("main")
    /\ ret.v.head = Some(ExpectedMeta(NumCommits))


----------------------------------------------------------------------------
\* What the change detector's claims are stated against

\* p is a textual prefix of s
IsPrefix(p, s) == Len(p) <= Len(s) /\ \A i \in 1..Len(p) : s[i] = p[i]

\* the commits an argument names: by full id in either case, by an abbreviation
\* of AbbrevLen digits, or as HEAD
Named(r, s) ==
    IF s = HeadSpec THEN {HeadObject(r)} \cap Commits
    ELSE IF s = UpperId THEN {1}
    ELSE {c \in Commits : s = CommitId(c) \/ s = Abbrev(c, AbbrevLen)}

ParentSet(r, c) == {r.parents[c][i] : i \in 1..Len(r.parents[c])}

\* the paths whose blobs differ between the trees of commits a and b
Differing(r, a, b) == {Paths[i] : i \in {j \in 1..Len(Paths) : r.tree[a][j] # r.tree[b][j]}}

\* the paths of an optional list
PathsOf(opt) == IF opt.some THEN {opt.v[i] : i \in 1..Len(opt.v)} ELSE {}

ShallowExpandMessage == "No support for partial commit id expand on shallow clones"

\* C5: expand_partial_commit_id returns an id of 40 characters unchanged and
\* makes no backend call: no repository is opened, the shallow flag is not
\* read, the commit is not looked up.
C5_FullIdReturnedUnchanged ==
    (op = "expand_partial_commit_id" /\ Len(args.partial) = FullIdLen) =>
        /\ ret = Ok(args.partial)
        /\ calls = <<>>

\* C5 witness: on a shallow clone, the full id of a commit that does not exist
C5_Witness ==
    /\ op = "expand_partial_commit_id"
    /\ args.partial = MissingId
    /\ IsHex(args.partial)
    /\ repo.shallow
    /\ ret = Ok(MissingId)
    /\ calls = <<>>

\* C6 as stated: on a shallow clone expand_partial_commit_id fails with the
\* shallow-clone error whatever the input, abbreviated or of full length.
C6_ShallowAlwaysFails ==
    (op = "expand_partial_commit_id" /\ repo.shallow /\ self.path.some) =>
        (~ret.ok /\ ret.e = ShallowExpandMessage)

\* C6 amended: on a shallow clone expand_partial_commit_id fails with the
\* shallow-clone error for every input that is not 40 characters long, valid
\* or not; an input of 40 characters is returned unchanged.
C6_ShallowFailsUnlessFullLength ==
    (op = "expand_partial_commit_id" /\ repo.shallow /\ self.path.some) =>
        IF Len(args.partial) = FullIdLen
        THEN ret = Ok(args.partial)
        ELSE ~ret.ok /\ ~ret.panic /\ ret.e = ShallowExpandMessage

\* C6 witness: the abbreviation of a commit the shallow clone holds is refused
C6_Witness ==
    /\ op = "expand_partial_commit_id"
    /\ repo.shallow
    /\ self.path.some
    /\ args.partial = Abbrev(NumCommits, AbbrevLen)
    /\ ~ret.ok
    /\ ret.e = ShallowExpandMessage

\* C7: on a repository that is not shallow, an input shorter than 40
\* characters yields the full id, 40 lower-case hex digits, of the one commit
\* it names (the commit whose id it abbreviates, or the HEAD commit), and an
\* error when it names no object, several objects or an object that is no
\* commit; so does an input longer than 40 characters.
C7_AbbreviationExpandsToFullId ==
    (/\ op = "expand_partial_commit_id"
     /\ ~repo.shallow
     /\ self.path.some
     /\ Len(args.partial) # FullIdLen) =>
        LET named == IF args.partial = HeadSpec THEN {HeadObject(repo)}
                     ELSE {o \in Objects : /\ Len(args.partial) >= 4
                                           /\ Len(args.partial) < FullIdLen
                                           /\ IsPrefix(args.partial, IdOf(o))}
        IN IF \E c \in Commits : named = {c}
           THEN /\ ret.ok
                /\ Len(ret.v) = FullIdLen
                /\ \E c \in Commits : named = {c} /\ ret.v = CommitId(c)
                /\ args.partial # HeadSpec => IsPrefix(args.partial, ret.v)
           ELSE ~ret.ok /\ ~ret.panic

\* C7 witness: the abbreviation of commit 1, which shares four digits with
\* commit 2, expands to the id of commit 1
C7_Witness ==
    /\ op = "expand_partial_commit_id"
    /\ ~repo.shallow
    /\ args.partial = Abbrev(1, AbbrevLen)
    /\ Len(args.partial) < FullIdLen
    /\ ret = Ok(CommitId(1))

\* C8: list_files_changed_between never returns Some of an empty list, and
\* returns None when both arguments name the same commit; it does return with
\* the full id of an existing commit given twice.
C8_SameCommitTwiceIsNone ==
    (op = "list_files_changed_between") =>
        /\ (ret.ok /\ ret.v.some) => Len(ret.v.v) > 0
        /\ (/\ ret.ok
            /\ \E c \in Commits : /\ c \in Named(repo, args.commit1)
                                  /\ c \in Named(repo, args.commit2)) =>
               ret.v = None
        /\ (/\ args.commit1 = args.commit2
            /\ args.commit1 \in FullIds
            /\ self.path.some) =>
               ret = Ok(None)

\* C8 witness: the last commit, whose tree holds files, diffed against itself
C8_Witness ==
    /\ op = "list_files_changed_between"
    /\ args.commit1 = CommitId(NumCommits)
    /\ args.commit2 = CommitId(NumCommits)
    /\ \E i \in 1..Len(Paths) : repo.tree[NumCommits][i] # 0
    /\ ret = Ok(None)

LiesAt(file, path) ==
    /\ IsPrefix(path, file)
    /\ \/ Len(file) = Len(path)
       \/ path[Len(path)] = "/"
       \/ file[Len(path) + 1] = "/"

\* the files of the tree of commit c
FilesOf(r, c) == {Paths[i] : i \in {j \in 1..Len(Paths) : r.tree[c][j] # 0}}

\* no commit has a file at the path, the root directory being in every commit
NeverPresent(r, path) ==
    /\ path # <<>>
    /\ \A c \in Commits : \A f \in FilesOf(r, c) : ~LiesAt(f, path)

RECURSIVE BetweenCalls(_, _)
BetweenCalls(i, n) ==
    IF i > n THEN <<>>
    ELSE has_path_changed_between(
             self, repo, args.path, CommitId(HeadObject(repo)),
             CommitId(repo.parents[HeadObject(repo)][i])).calls
         \o BetweenCalls(i + 1, n)

----------------------------------------------------------------------------
\* The identity GitRepo::open returns: branch and url

\* the local branch open resolves: the one the hint names, or the one HEAD is on
ResolvedBranch(r, hint) ==
    IF hint.some
    THEN (IF hint.v \in DOMAIN r.branches THEN Some(hint.v) ELSE None)
    ELSE (IF OnBranch(r) THEN Some(r.head.name) ELSE None)

\* the names of the upstream of local branch b: the branch on the remote, and
\* the remote-tracking branch
UpstreamNames(r, b) ==
    {r.merge[b], r.upstreamRemote[b].v \o "/" \o r.merge[b]}

\* C17 as stated: the branch of an identity that open returns is the name of
\* the remote-tracking branch the local branch follows, not the name of the
\* local branch (here for open without a commit hint).
C17_BranchIsUpstreamName ==
    (/\ op = "open"
     /\ ret.ok
     /\ ~args.commit_id.some
     /\ ResolvedBranch(repo, args.branch).some
     /\ HasUpstream(repo, ResolvedBranch(repo, args.branch).v)) =>
        /\ ret.v.branch.some
        /\ ret.v.branch.v \in UpstreamNames(repo, ResolvedBranch(repo, args.branch).v)

HasUpstreamRemote(r) == OnBranch(r) /\ r.upstreamRemote[r.head.name].some

\* the errors of reading the remote of the current branch
RemoteErrors ==
    {"git2: remote does not exist", "git2: branch has no upstream remote",
     "Unable to extract repo url from remote",
     "Could not retrieve remote name from local branch"}

----------------------------------------------------------------------------
\* The remote operations

\* the id of an optional head
HeadId(head) == IF head.some THEN Some(head.v.id) ELSE None

AdvertisedBranches(rem) ==
    {SubSeq(RemoteList(rem)[i].name, Len(RefsHeads) + 1, Len(RemoteList(rem)[i].name)) :
        i \in {j \in 1..Len(RemoteList(rem)) : IsPrefix(RefsHeads, RemoteList(rem)[j].name)}}

\* the names a filter lists
Listed(branch_filter) ==
    IF branch_filter.some
    THEN {branch_filter.v[i] : i \in 1..Len(branch_filter.v)}
    ELSE {}

\* C14 as stated: the map get_remote_branch_head_refs returns has no branch
\* the filter lists and every other branch the remote advertises under
\* refs/heads/; without a filter it has every branch advertised.
C14_FilterExcludesListed ==
    (op = "get_remote_branch_head_refs" /\ ret.ok) =>
        DOMAIN ret.v = AdvertisedBranches(remote) \ Listed(args.branch_filter)

\* C15 as stated: with a filter that lists names, every key of the map that
\* get_remote_branch_head_refs returns starts with an entry of the filter.
C15_FilterKeepsByPrefix ==
    (/\ op = "get_remote_branch_head_refs"
     /\ ret.ok
     /\ Listed(args.branch_filter) # {}) =>
        \A key \in DOMAIN ret.v :
            \E entry \in Listed(args.branch_filter) : IsPrefix(entry, key)

\* every commit at the head of a reference the remote advertises is held
HoldsAdvertised(r, rem) ==
    \A i \in 1..Len(RemoteList(rem)) :
        \E c \in r.objects : OidOf(c) = RemoteList(rem)[i].oid

\* C16 as stated: when the remote name cannot be read from the upstream
\* configuration of the current branch (a detached HEAD, a branch without
\* upstream), get_remote_branch_head_refs goes on with the name `origin`:
\* with `origin` defined and reachable and every advertised commit held, the
\* enumeration does not fail.
C16_RemoteNameDefaultsToOrigin ==
    (/\ op = "get_remote_branch_head_refs"
     /\ args.temp_dir
     /\ self.path.some
     /\ ~HasUpstreamRemote(repo)
     /\ "origin" \in repo.remotes
     /\ remote.reachable
     /\ HoldsAdvertised(repo, remote)) =>
        ret.ok

\* the clone of the call could not be made: the transport of git_clone
\* failed, or the subprocess of git_clone_shallow could not be started or did
\* not exit with success
CloneFailed ==
    \/ /\ op = "git_clone"
       /\ ~BuilderClone(GitRepoCloner_from(self), remote, args.target).ok
    \/ /\ op = "git_clone_shallow"
       /\ \/ ~args.spawn
          \/ ~CliCloneWorks(GitRepoCloner_from(self), remote, args.target)

\* C20: every failure in a clone operation reaches the caller as an error
\* value: a clone that failed returns an error, and no clone operation
\* panics.
C20_CloneFailuresAreErrors ==
    op \in {"git_clone", "git_clone_shallow"} =>
        /\ ~ret.panic
        /\ CloneFailed => ~ret.ok

\* the place of the first call of that name among the calls made, 0 if none
RECURSIVE CallAt(_, _, _)
CallAt(made, name, i) ==
    IF i > Len(made) THEN 0
    ELSE IF made[i] = name THEN i
    ELSE CallAt(made, name, i + 1)

\* C24: get_remote_branch_head_refs, once it has its scratch directory, makes
\* a shallow clone exactly when the identity has no path; with a path it opens
\* the repository there and makes no clone; and it connects to the remote only
\* after it has opened a repository.
C24_ClonesIffNoPath ==
    (op = "get_remote_branch_head_refs" /\ args.temp_dir) =>
        /\ (CallAt(calls, "git_clone_shallow", 1) # 0) <=> ~self.path.some
        /\ self.path.some => calls[2] = "Repository::open"
        /\ CallAt(calls, "connect_auth", 1) # 0 =>
               /\ CallAt(calls, "Repository::open", 1) # 0
               /\ CallAt(calls, "Repository::open", 1)
                      < CallAt(calls, "connect_auth", 1)

\* C24 witness: an identity without path whose call cloned, opened the clone
\* and then connected
C24_Witness ==
    /\ op = "get_remote_branch_head_refs"
    /\ ~self.path.some
    /\ CallAt(calls, "git_clone_shallow", 1) = 2
    /\ CallAt(calls, "Repository::open", 1) = 3
    /\ CallAt(calls, "connect_auth", 1) > 3
    /\ ret.ok

\* C25 as stated: the keys of the map get_remote_branch_head_refs returns are
\* names the remote advertises under refs/heads/ with the leading prefix
\* removed, and without a filter distinct advertised branches give distinct
\* keys: the map has as many keys as the remote advertises branches.
C25_KeysStripLeadingPrefix ==
    (op = "get_remote_branch_head_refs" /\ ret.ok) =>
        /\ DOMAIN ret.v \subseteq AdvertisedBranches(remote)
        /\ Listed(args.branch_filter) = {} =>
               Cardinality(DOMAIN ret.v) = Cardinality(AdvertisedBranches(remote))

\* C28: new_commits_exist on an identity without branch returns an error
\* and has made no scratch directory and no clone.
C28_NoBranchIsErrorBeforeClone ==
    (op = "new_commits_exist" /\ ~self.branch.some) =>
        /\ ret = Err("No branch set")
        /\ calls = <<>>

\* C28 witness: the call on an identity without branch, with a remote that
\* could have been cloned and a scratch directory that could have been made
C28_Witness ==
    /\ op = "new_commits_exist"
    /\ ~self.branch.some
    /\ args.temp_dir
    /\ remote.reachable
    /\ ~ret.ok

\* the repository get_remote_branch_head_refs reads the commits from: the one
\* at the path, or the shallow clone
HandleOf(g, r, rem) == IF g.path.some THEN r ELSE ShallowCloneOf(rem)

\* the references of the listing that the loop retains: those under
\* refs/heads/ whose branch name the filter does not skip
RetainedRefs(rem, branch_filter) ==
    {i \in 1..Len(RemoteList(rem)) :
        /\ IsPrefix(RefsHeads, RemoteList(rem)[i].name)
        /\ ~filter_skips(branch_filter,
                         RsplitFirst(RemoteList(rem)[i].name, RefsHeads))}

\* a retained reference whose commit the repository does not hold
MissingHead(g, r, rem, branch_filter) ==
    \E i \in RetainedRefs(rem, branch_filter) :
        \A c \in HandleOf(g, r, rem).objects : OidOf(c) # RemoteList(rem)[i].oid

\* C29: get_remote_branch_head_refs is all-or-nothing: when the repository
\* lacks the commit of a retained advertised branch head the call returns an
\* error, no map; and a map it returns holds every retained reference's
\* commit.
C29_MissingHeadFailsWholeCall ==
    (op = "get_remote_branch_head_refs") =>
        /\ MissingHead(self, repo, remote, args.branch_filter) => ~ret.ok
        /\ (CallAt(calls, "list", 1) # 0
            /\ ~MissingHead(self, repo, remote, args.branch_filter)) => ret.ok

\* C29 witness: the listing was read, the commit of one retained head is
\* held and that of another is not, and the call failed at find_commit
C29_Witness ==
    /\ op = "get_remote_branch_head_refs"
    /\ CallAt(calls, "list", 1) # 0
    /\ calls[Len(calls)] = "find_commit"
    /\ Len(calls) > CallAt(calls, "list", 1) + 1
    /\ MissingHead(self, repo, remote, args.branch_filter)
    /\ ~ret.ok

----------------------------------------------------------------------------
\* The resolver, continued

\* the call ended in a panic, not in a value
Panicked(result) == ~result.ok /\ result.panic

\* C27: no call of get_git2_commit, and no call of open or with_commit, which
\* call it, reaches unreachable!(): with neither branch nor commit id the
\* resolver returns the HEAD commit, or an error when HEAD does not resolve to
\* a commit.
C27_UnreachableIsNeverReached ==
    /\ op \in {"get_git2_commit", "open", "with_commit"} => ~Panicked(ret)
    /\ (op = "get_git2_commit" /\ ~args.branch.some /\ ~args.commit_id.some) =>
           IF HeadPeels(repo) THEN ret = Ok(Some(HeadObject(repo)))
           ELSE ~ret.ok /\ ~ret.panic

\* C27 witness: the resolver called with neither on a detached HEAD
C27_Witness ==
    /\ op = "get_git2_commit"
    /\ args.branch = None
    /\ args.commit_id = None
    /\ repo.head.kind = "detached"
    /\ ret = Ok(Some(repo.head.commit))

Contained(r, commit, branch) ==
    /\ branch.target \in Commits
    /\ commit \in {branch.target} \cup Ancestors(r, branch.target)

\* the object store lacks a commit the descendant-of query reads
QueryFails(r, commit, branch) ==
    /\ branch.target \in Commits
    /\ branch.target # commit
    /\ ~(({branch.target, commit} \cup Ancestors(r, branch.target))
             \subseteq r.objects)

\* C26: is_commit_in_branch never returns an error: a branch head that does
\* not peel to a commit and a descendant-of query that fails give false,
\* otherwise it tells whether the branch contains the commit; and the resolver
\* called with a branch alone returns the commit at the head of the reference
\* it chose, whatever the check on that reference gives.
C26_AncestryCheckIsInformational ==
    /\ (op = "is_commit_in_branch") =>
           /\ ret.ok
           /\ ret.v \in BOOLEAN
           /\ args.branch.target \notin Commits => ret.v = FALSE
           /\ QueryFails(repo, args.commit, args.branch) => ret.v = FALSE
           /\ ~QueryFails(repo, args.commit, args.branch) =>
                  ret.v = Contained(repo, args.commit, args.branch)
    /\ (/\ op = "get_git2_commit"
        /\ args.branch.some
        /\ ~args.commit_id.some
        /\ args.branch.v \in DOMAIN repo.branches
        /\ TrackedObject(repo, args.branch.v) \in Commits) =>
           ret = Ok(Some(TrackedObject(repo, args.branch.v)))

\* C26 witness: the object store has lost a commit the descendant-of query
\* reads, and the check answers false
C26_Witness ==
    /\ op = "is_commit_in_branch"
    /\ QueryFails(repo, args.commit, args.branch)
    /\ Contained(repo, args.commit, args.branch)
    /\ ret = Ok(FALSE)

----------------------------------------------------------------------------
\* The clone operations and the log

Has(command, word) == \E i \in 1..Len(command) : command[i] = word

IsVariant(credentials, kind) == credentials.some /\ credentials.v.kind = kind

\* C21 as stated: the command line of git_clone_shallow holds
\* --no-single-branch and --depth=1 with every variant of the credentials;
\* the core.sshcommand override of the private key with an ssh key and with
\* no other; the url with username and password with user and password and
\* with no other; and without credentials the url of the identity as it is.
C21_ShallowCloneCommandLine ==
    (op = "git_clone_shallow" /\ spawned # <<>>) =>
        LET command == spawned[1]
            url == GitUrl_parse(self.url.parsed)
            cr == self.credentials
        IN /\ Len(spawned) = 1
           /\ SubSeq(command, 1, 2) = <<"git", "clone">>
           /\ Has(command, "--no-single-branch")
           /\ Has(command, "--depth=1")
           /\ Has(command, "--config") <=> IsVariant(cr, "SshKey")
           /\ IsVariant(cr, "SshKey") =>
                  /\ Has(command, "core.sshcommand=ssh -i " \o cr.v.private_key)
                  /\ command[3] = Display([url EXCEPT !.user = Some(cr.v.username),
                                                      !.token = None])
           /\ IsVariant(cr, "UserPassPlaintext") =>
                  command[3] = Display([url EXCEPT !.user = Some(cr.v.username),
                                                   !.token = Some(cr.v.password)])
           /\ ~cr.some => command[3] = self.url.parsed

\* C22 as stated: git_clone_shallow opens the target only after it has
\* waited for the subprocess it started.
C22_ShallowCloneWaitsBeforeOpen ==
    (op = "git_clone_shallow" /\ CallAt(calls, "Repository::open", 1) # 0) =>
        /\ CallAt(calls, "wait_with_output", 1) # 0
        /\ CallAt(calls, "wait_with_output", 1)
               < CallAt(calls, "Repository::open", 1)

\* what must not be read in a log: the password, the passphrase and the path
\* of the private key of the credentials
Secrets(credentials) ==
    IF ~credentials.some THEN {}
    ELSE IF credentials.v.kind = "SshKey"
    THEN {credentials.v.private_key}
         \cup (IF credentials.v.passphrase.some
               THEN {credentials.v.passphrase.v} ELSE {})
    ELSE {credentials.v.password}

\* C23 as stated: no record an operation writes to the log holds a secret of
\* the credentials of the identity.
C23_NoSecretInLogs ==
    \A i \in 1..Len(logs) :
        \A k \in 1..Len(logs[i].text) :
            logs[i].text[k] \notin Secrets(self.credentials)

====
